---- MODULE Spec2Model ----
(***************************************************************************)
(* Body streaming core of hreq (src/src/body_codec.rs): BodyCodec wraps a  *)
(* BodyReader, which refills a growable buffer from one of five body       *)
(* sources.  Every poll_* function of the code runs to completion, so each *)
(* poll is one action; the answers of the source inside one poll (slab     *)
(* sizes, suspension, failure) are chosen by the environment and collected *)
(* by set-valued operators that follow the code's control flow.            *)
(*                                                                         *)
(* Bytes are numbered: the body of length n is the sequence 1, 2, .., n,   *)
(* so a lost, repeated or reordered byte changes the sequence.             *)
(*                                                                         *)
(* The runtime singletons of src/src/async_impl.rs (CURRENT_RUNTIME,       *)
(* RUNTIME, HANDLE and the threads that lock them) are a second            *)
(* specification, SpecRuntime, over variables of their own.                *)
(***************************************************************************)
EXTENDS Integers, Sequences, FiniteSets, TLC

VARIABLES
    codec,      \* BodyCodec variant: "Deferred" (holds the reader), "DeferredNone"
                \* (Deferred(None)), "Pass", "GzipDecoder", "GzipEncoder"
    rd,         \* the BodyReader's fields
    io,         \* the body source and its transport, as the reader can observe them
    hist,       \* what the caller has been handed so far
    last,       \* the call that ran last and what it returned
    panicked,   \* a panic (fatal misuse) has ended the program
    CURRENT_RUNTIME,    \* async_impl.rs: Mutex<Inner>, the selected runtime
    RUNTIME,            \* async_tokio: Mutex<Option<TokioRuntime>>
    HANDLE,             \* async_tokio: Mutex<Option<Handle>>
    threads     \* the threads that call into AsyncRuntime, each with its position

vars == <<codec, rd, io, hist, last, panicked>>

rvars == <<CURRENT_RUNTIME, RUNTIME, HANDLE, threads>>

allvars == <<vars, rvars>>

\* ---------------------------------------------------------------- sizes

\* body_codec.rs:22-24, scaled by the same factor so that TLC can enumerate
\* them; the order START_BUF_SIZE < MAX_PREBUFFER < MAX_BUF_SIZE and the
\* doubling path START -> MAX_PREBUFFER -> MAX_BUF_SIZE are kept.
START_BUF_SIZE == 1
MAX_BUF_SIZE == 4
MAX_PREBUFFER == 2

\* UninitBuf grows its storage before a fill when the spare capacity is below
\* this many bytes.
GROW_BELOW == 1

\* Bounds of the model.
MaxBody == 3        \* body lengths 0..MaxBody
MaxRead == 2        \* caller read-buffer sizes 1..MaxRead
MaxEmpty == 1       \* zero-length HTTP/2 data chunks in one body
MaxPulls == 6       \* source pulls followed inside one refill
NumThreads == 2     \* threads calling into AsyncRuntime

Kinds == {"RequestEmpty", "RequestAsyncRead", "RequestRead", "Http1", "Http2"}
Encodings == {"none", "gzip", "br"}

\* BodyCodec::Deferred(Option<BodyReader>), with and without the reader.
Unfinalized == {"Deferred", "DeferredNone"}

Min(a, b) == IF a < b THEN a ELSE b

\* The bytes a..b of the body, in order (empty when b < a).
Bytes(a, b) == [i \in 1..(b - a + 1) |-> a + i - 1]

Take(q, n) == SubSeq(q, 1, n)
Drop(q, n) == SubSeq(q, n + 1, Len(q))

RECURSIVE Sum(_)
Sum(q) == IF q = <<>> THEN 0 ELSE Head(q) + Sum(Tail(q))

Zeros(q) == Cardinality({i \in 1..Len(q) : q[i] = 0})

\* ------------------------------------------------------------ BodyReader

\* BodyReader::new
NewReader(imp, prebuffer, bw) ==
    [ imp |-> imp,
      prebuffer_to |-> IF prebuffer THEN MAX_PREBUFFER ELSE 0,
      h2_leftover_bytes |-> <<>>,       \* None is the empty sequence
      buffer |-> <<>>,
      cap |-> START_BUF_SIZE,
      consumed |-> 0,
      is_finished |-> FALSE,
      bw |-> bw ]

\* The source before its first pull: body is the number of bytes it will
\* produce, pos how many it has produced, eof whether it has signalled the
\* end of the stream; received and released log the HTTP/2 chunks handed out
\* by poll_data and the sizes passed to release_capacity; bw_total is the
\* bandwidth monitor's counter.
NewSource(n) ==
    [ body |-> n, pos |-> 0, eof |-> FALSE,
      received |-> <<>>, released |-> <<>>, bw_total |-> 0 ]

unconsumed(s) == Drop(s.rd.buffer, s.rd.consumed)

unconsumed_len(s) == Len(s.rd.buffer) - s.rd.consumed

\* A result of a poll: the state it leaves, how it ended ("ok", "pending",
\* "err", "panic"), the amount it returned and the bytes it handed over.
Res(s, r, amt, data) == [s |-> s, r |-> r, amt |-> amt, data |-> data]

\* The source has failed with `kind` and the poll ends as r: the failure is
\* put on the record of the call in progress (s.faults).
Fail(s, kind, r) == Res([s EXCEPT !.faults = Append(@, kind)], r, 0, <<>>)

\* H2BytesReader::read on the leftover chunk: copies as much as fits.
H2BytesReaderRead(chunk, n) == Min(n, Len(chunk))

\* A pull of 0 bytes that does not mark the reader finished.
AfterPullNeverFinished(s, amount, data) ==
    Res([s EXCEPT !.io.bw_total = IF s.rd.bw THEN @ + amount ELSE @],
        "ok", amount, data)

\* poll_read_underlying, lines 230-238: a pull of 0 bytes marks the reader
\* finished; the amount is reported to the bandwidth monitor.
AfterPull(s, amount, data) ==
    Res([s EXCEPT !.rd.is_finished = (@ \/ amount = 0),
                  !.io.bw_total = IF s.rd.bw THEN @ + amount ELSE @],
        "ok", amount, data)

\* poll_read / read of a reader source (sync, async, HTTP/1) into a buffer
\* of n bytes: some bytes while the body lasts, 0 at its end or for n = 0.
ReaderData(s, n) ==
    LET rem == s.io.body - s.io.pos IN
    IF n = 0 \/ rem = 0
    THEN { AfterPull([s EXCEPT !.io.eof = (@ \/ n > 0)], 0, <<>>) }
    ELSE { AfterPull([s EXCEPT !.io.pos = @ + k], k,
                     Bytes(s.io.pos + 1, s.io.pos + k)) : k \in 1..Min(n, rem) }

\* Http2Chunk with the credit released for the bytes copied out of the chunk
\* instead of for the chunk.
Http2ChunkCreditForCopied(s, n, c) ==
    LET chunk == Bytes(s.io.pos + 1, s.io.pos + c)
        amt == H2BytesReaderRead(chunk, n)
        got == [s EXCEPT !.io.pos = @ + c,
                         !.io.received = Append(@, c),
                         !.io.released = Append(@, amt)]
    IN { Fail(got, "release_capacity", "err"),
         AfterPull([got EXCEPT !.rd.h2_leftover_bytes = Drop(chunk, amt)],
                   amt, Take(chunk, amt)) }

\* Http2Chunk with the credit released only for a chunk that is copied out
\* whole, and put off for one that leaves a leftover.
Http2ChunkCreditPutOff(s, n, c) ==
    LET chunk == Bytes(s.io.pos + 1, s.io.pos + c)
        amt == H2BytesReaderRead(chunk, n)
        got == [s EXCEPT !.io.pos = @ + c,
                         !.io.received = Append(@, c),
                         !.io.released = IF amt = c THEN Append(@, c) ELSE @]
    IN { Fail(got, "release_capacity", "err"),
         AfterPull([got EXCEPT !.rd.h2_leftover_bytes = Drop(chunk, amt)],
                   amt, Take(chunk, amt)) }

\* BodyImpl::Http2, lines 199-227: a chunk of c bytes arrives, its full size
\* is passed to release_capacity, and what does not fit stays as leftover.
Http2Chunk(s, n, c) ==
    LET chunk == Bytes(s.io.pos + 1, s.io.pos + c)
        got == [s EXCEPT !.io.pos = @ + c,
                         !.io.received = Append(@, c),
                         !.io.released = Append(@, c)]
        amt == H2BytesReaderRead(chunk, n)
    IN { Fail(got, "release_capacity", "err"),
         AfterPull([got EXCEPT !.rd.h2_leftover_bytes =
                                   IF amt < c THEN Drop(chunk, amt) ELSE @],
                   amt, Take(chunk, amt)) }

\* RecvStream::poll_data when it has an answer: the end of the stream once
\* the body is out, or the next chunk, which may be a zero-length one.
Http2Data(s, n) ==
    LET rem == s.io.body - s.io.pos IN
    (IF rem = 0 THEN { AfterPull([s EXCEPT !.io.eof = TRUE], 0, <<>>) } ELSE {})
    \cup UNION { Http2Chunk(s, n, c) :
                   c \in (IF Zeros(s.io.received) < MaxEmpty THEN 0..rem ELSE 1..rem) }

\* BodyImpl::RequestRead with a source whose WouldBlock is handed to the
\* caller as a suspension.
RequestReadSuspends(s, n) ==
    ReaderData(s, n) \cup { Fail(s, "io", "err"), Fail(s, "WouldBlock", "pending") }

\* BodyImpl::RequestRead, lines 189-197: the blocking read gives bytes, fails
\* with WouldBlock, which panics, or fails otherwise, which is returned.
RequestRead(s, n) ==
    ReaderData(s, n) \cup { Fail(s, "io", "err"), Fail(s, "WouldBlock", "panic") }

\* poll_read_underlying that asks the source without looking at the
\* leftover chunk first.
PollReadUnderlyingSkipsLeftover(s, n) ==
    IF s.rd.is_finished THEN { Res(s, "ok", 0, <<>>) }
    ELSE CASE s.rd.imp = "RequestEmpty" ->
                { AfterPull([s EXCEPT !.io.eof = TRUE], 0, <<>>) }
           [] s.rd.imp = "RequestRead" ->
                RequestRead(s, n)
           [] s.rd.imp \in {"RequestAsyncRead", "Http1"} ->
                ReaderData(s, n) \cup { Fail(s, "io", "err"), Res(s, "pending", 0, <<>>) }
           [] s.rd.imp = "Http2" ->
                Http2Data(s, n) \cup { Fail(s, "poll_data", "err"), Res(s, "pending", 0, <<>>) }

\* BodyReader::poll_read_underlying with a buffer of n bytes.
PollReadUnderlying(s, n) ==
    IF s.rd.is_finished THEN { Res(s, "ok", 0, <<>>) }
    ELSE IF s.rd.h2_leftover_bytes # <<>> THEN
        LET br == s.rd.h2_leftover_bytes
            amt == H2BytesReaderRead(br, n)
        IN { Res([s EXCEPT !.rd.h2_leftover_bytes = Drop(br, amt)],
                 "ok", amt, Take(br, amt)) }
    ELSE CASE s.rd.imp = "RequestEmpty" ->
                { AfterPull([s EXCEPT !.io.eof = TRUE], 0, <<>>) }
           [] s.rd.imp = "RequestRead" ->
                RequestRead(s, n)
           [] s.rd.imp \in {"RequestAsyncRead", "Http1"} ->
                ReaderData(s, n) \cup { Fail(s, "io", "err"), Res(s, "pending", 0, <<>>) }
           [] s.rd.imp = "Http2" ->
                Http2Data(s, n) \cup { Fail(s, "poll_data", "err"), Res(s, "pending", 0, <<>>) }

\* UninitBuf::poll_delegate: grow when the spare capacity is short and the
\* maximum allows, let the filler write into the spare capacity, and add
\* what it produced to the length.
PollDelegate(s) ==
    LET len == Len(s.rd.buffer)
        cap == IF s.rd.cap - len < GROW_BELOW /\ s.rd.cap < MAX_BUF_SIZE
               THEN Min(2 * s.rd.cap, MAX_BUF_SIZE) ELSE s.rd.cap
        s1 == [s EXCEPT !.rd.cap = cap]
    IN { IF d.r = "ok"
         THEN [d EXCEPT !.s.rd.buffer = @ \o d.data]
         ELSE d : d \in PollReadUnderlying(s1, cap - len) }

\* The loop of poll_refill_buf, lines 250-271.
RECURSIVE RefillLoop(_, _)
RefillLoop(s, fuel) ==
    LET buffer_len == Len(s.rd.buffer)
        read_enough == \/ s.rd.prebuffer_to > 0 /\ buffer_len = s.rd.prebuffer_to
                       \/ s.rd.prebuffer_to = 0 /\ buffer_len > 0
    IN IF s.rd.is_finished \/ read_enough
       THEN { Res([s EXCEPT !.rd.prebuffer_to = 0], "ok", 0, <<>>) }
       ELSE IF fuel = 0 THEN { Res(s, "spin", 0, <<>>) }
       ELSE UNION { IF d.r = "ok" THEN RefillLoop(d.s, fuel - 1)
                    ELSE { Res(d.s, d.r, 0, <<>>) } : d \in PollDelegate(s) }

\* poll_refill_buf without the early return: the buffer is cleared although
\* unconsumed bytes remain.
PollRefillBufClearsAlways(s) ==
    RefillLoop([s EXCEPT !.rd.consumed = 0, !.rd.buffer = <<>>], MaxPulls)

\* poll_refill_buf that clears the buffer and leaves the cursor where it was.
PollRefillBufKeepsCursor(s) ==
    IF unconsumed_len(s) > 0 THEN { Res(s, "ok", 0, <<>>) }
    ELSE RefillLoop([s EXCEPT !.rd.buffer = <<>>], MaxPulls)

\* poll_refill_buf that returns early only when more than one unconsumed
\* byte remains.
PollRefillBufOffByOne(s) ==
    IF unconsumed_len(s) > 1 THEN { Res(s, "ok", 0, <<>>) }
    ELSE RefillLoop([s EXCEPT !.rd.consumed = 0, !.rd.buffer = <<>>], MaxPulls)

\* BodyReader::poll_refill_buf
PollRefillBuf(s) ==
    IF unconsumed_len(s) > 0 THEN { Res(s, "ok", 0, <<>>) }
    ELSE RefillLoop([s EXCEPT !.rd.consumed = 0, !.rd.buffer = <<>>], MaxPulls)

\* poll_fill_buf that answers a failed refill with an empty view.
ReaderPollFillBufSwallows(s) ==
    { IF d.r = "ok" THEN Res(d.s, "ok", unconsumed_len(d.s), unconsumed(d.s))
      ELSE IF d.r = "err" THEN Res(d.s, "ok", 0, <<>>) ELSE d
      : d \in PollRefillBuf(s) }

\* impl AsyncBufRead for BodyReader: poll_fill_buf
ReaderPollFillBuf(s) ==
    { IF d.r = "ok" THEN Res(d.s, "ok", unconsumed_len(d.s), unconsumed(d.s)) ELSE d
      : d \in PollRefillBuf(s) }

\* consume that answers a cursor beyond the buffer with an error value
\* instead of asserting.
ReaderConsumeReturnsError(s, amt) ==
    LET s1 == [s EXCEPT !.rd.consumed = @ + amt] IN
    IF s1.rd.consumed <= Len(s1.rd.buffer)
    THEN Res(s1, "ok", 0, <<>>) ELSE Res(s, "err", 0, <<>>)

\* impl AsyncBufRead for BodyReader: consume (the assertion comes after the
\* cursor has moved).
ReaderConsume(s, amt) ==
    LET s1 == [s EXCEPT !.rd.consumed = @ + amt] IN
    IF s1.rd.consumed <= Len(s1.rd.buffer)
    THEN Res(s1, "ok", 0, <<>>) ELSE Res(s1, "panic", 0, <<>>)

\* impl AsyncRead for BodyReader: poll_read with a buffer of n bytes.
ReaderCopyOut(s, n) ==
    LET amount == Min(n, unconsumed_len(s))
        c == ReaderConsume(s, amount)
    IN Res(c.s, c.r, amount, Take(unconsumed(s), amount))

\* poll_read that answers a finished, drained reader with an error instead
\* of 0.
ReaderPollReadEofError(s, n) ==
    IF unconsumed_len(s) = 0
    THEN IF s.rd.is_finished THEN { Fail(s, "io", "err") }
         ELSE { IF d.r = "ok" THEN ReaderCopyOut(d.s, n) ELSE d : d \in PollRefillBuf(s) }
    ELSE { ReaderCopyOut(s, n) }

ReaderPollRead(s, n) ==
    IF unconsumed_len(s) = 0
    THEN IF s.rd.is_finished THEN { Res(s, "ok", 0, <<>>) }
         ELSE { IF d.r = "ok" THEN ReaderCopyOut(d.s, n) ELSE d : d \in PollRefillBuf(s) }
    ELSE { ReaderCopyOut(s, n) }

\* BodyReader::attempt_prebuffer, one poll of the future: Some(len) is the
\* amount len, None is the amount -1.
ReaderAttemptPrebuffer(s) ==
    { IF d.r = "ok"
      THEN Res(d.s, "ok", IF d.s.rd.is_finished THEN Len(d.s.rd.buffer) ELSE -1, <<>>)
      ELSE d : d \in PollRefillBuf(s) }

\* ------------------------------------------------------------- BodyCodec

\* from_encoding with the directions exchanged.
from_encoding_exchanged(encoding, is_incoming) ==
    CASE encoding = "none" -> "Pass"
      [] encoding = "gzip" /\ is_incoming -> "GzipEncoder"
      [] encoding = "gzip" /\ ~is_incoming -> "GzipDecoder"
      [] OTHER -> "Pass"

\* BodyCodec::from_encoding (feature "gzip" enabled)
from_encoding(encoding, is_incoming) ==
    CASE encoding = "none" -> "Pass"
      [] encoding = "gzip" /\ is_incoming -> "GzipDecoder"
      [] encoding = "gzip" /\ ~is_incoming -> "GzipEncoder"
      [] OTHER -> "Pass"

\* The reader and the source as a call finds them, with no failure of the
\* source on the call's record yet.
Cur == [rd |-> rd, io |-> io, faults |-> <<>>]

\* ------------------------------------------------------------------ Init

Init ==
    /\ codec \in Unfinalized
    /\ \E imp \in (IF codec = "Deferred" THEN Kinds ELSE {"RequestEmpty"}),
          prebuffer \in (IF codec = "Deferred" THEN BOOLEAN ELSE {FALSE}),
          bw \in (IF codec = "Deferred" THEN BOOLEAN ELSE {FALSE}) :
           /\ rd = NewReader(imp, prebuffer, bw)
           /\ hist = [ taken |-> <<>>, direct |-> FALSE, first |-> TRUE,
                       prebuffer |-> prebuffer ]
    /\ \E n \in 0..MaxBody :
           io = NewSource(IF rd.imp = "RequestEmpty" THEN 0 ELSE n)
    /\ last = [ op |-> "new", arg |-> 0, r |-> "ok", amt |-> 0, data |-> <<>>,
                first |-> FALSE, faults |-> <<>> ]
    /\ panicked = FALSE

\* --------------------------------------------------------------- actions

\* One call has run and ended as d: the reader and the source are as it left
\* them, and the call is on record with the failures the source reported
\* during it.  A panic ends the program, and so does a refill that never
\* returns.  hist.taken collects the bytes that passed the
\* cursor, hist.direct whether the caller moved the cursor with consume,
\* hist.first whether attempt_prebuffer is still the only call made,
\* hist.prebuffer the flag the reader was constructed with.
Return(op, arg, d, taken, direct) ==
    /\ rd' = d.s.rd
    /\ io' = d.s.io
    /\ panicked' = (d.r \in {"panic", "spin"})
    /\ last' = [ op |-> op, arg |-> arg, r |-> d.r, amt |-> d.amt, data |-> d.data,
                 first |-> hist.first, faults |-> d.s.faults ]
    /\ hist' = [ taken |-> hist.taken \o taken,
                 direct |-> (hist.direct \/ direct),
                 first |-> (hist.first /\ op = "attempt_prebuffer" /\ d.r = "pending"),
                 prebuffer |-> hist.prebuffer ]
    /\ UNCHANGED rvars

\* attempt_prebuffer that treats a Deferred codec as the reading calls do.
CodecAttemptPrebufferMisuse(c, s) ==
    IF c \in Unfinalized THEN { Res(s, "panic", 0, <<>>) }
    ELSE ReaderAttemptPrebuffer(s)

\* BodyCodec::attempt_prebuffer: reader_mut finds the reader in every state
\* of the codec but Deferred(None); the reader's answer is handed on, and
\* without a reader the answer is None.
CodecAttemptPrebuffer(c, s) ==
    IF c = "DeferredNone" THEN { Res(s, "ok", -1, <<>>) }
    ELSE ReaderAttemptPrebuffer(s)

\* A Deferred codec that answers with end of stream instead of panicking.
MisuseReturnsNothing == Res(Cur, "ok", 0, <<>>)

\* The panic of the Deferred arm of poll_read, poll_fill_buf and consume.
Misuse == Res(Cur, "panic", 0, <<>>)

\* impl AsyncRead for BodyCodec: poll_read.  With a gzip state the bytes
\* come out of the compressor, which drives the reader through
\* PollFillBuf and Consume below.
PollRead(n) ==
    /\ ~panicked
    /\ codec \in Unfinalized \cup {"Pass"}
    /\ \E d \in (IF codec \in Unfinalized THEN {Misuse} ELSE ReaderPollRead(Cur, n)) :
           Return("read", n, d, IF d.r = "ok" THEN d.data ELSE <<>>, FALSE)
    /\ UNCHANGED codec

\* impl AsyncBufRead for BodyCodec: poll_fill_buf, as it reaches the reader.
PollFillBuf ==
    /\ ~panicked
    /\ \E d \in (IF codec \in Unfinalized THEN {Misuse} ELSE ReaderPollFillBuf(Cur)) :
           Return("fill_buf", 0, d, <<>>, FALSE)
    /\ UNCHANGED codec

\* impl AsyncBufRead for BodyCodec: consume, as it reaches the reader.
Consume(n) ==
    /\ ~panicked
    /\ LET d == IF codec \in Unfinalized THEN Misuse ELSE ReaderConsume(Cur, n) IN
           Return("consume", n, d,
                  IF d.r = "ok" THEN Take(unconsumed(Cur), n) ELSE <<>>,
                  d.r = "ok" /\ n > 0)
    /\ UNCHANGED codec

\* BodyCodec::attempt_prebuffer, one poll of the future.
AttemptPrebuffer ==
    /\ ~panicked
    /\ \E d \in CodecAttemptPrebuffer(codec, Cur) :
           Return("attempt_prebuffer", 0, d, <<>>, FALSE)
    /\ UNCHANGED codec

\* The caller finalizes a deferred codec with the negotiated encoding.
FromEncoding(encoding, is_incoming) ==
    /\ ~panicked
    /\ codec = "Deferred"
    /\ codec' = from_encoding(encoding, is_incoming)
    /\ last' = [ op |-> "from_encoding", arg |-> IF is_incoming THEN 1 ELSE 0,
                 r |-> "ok", amt |-> 0, data |-> <<encoding>>,
                 first |-> hist.first, faults |-> <<>> ]
    /\ UNCHANGED <<rd, io, hist, panicked>>
    /\ UNCHANGED rvars

Next ==
    \/ \E n \in 1..MaxRead : PollRead(n)
    \/ PollFillBuf
    \/ \E n \in 0..(unconsumed_len(Cur) + 1) : Consume(n)
    \/ AttemptPrebuffer
    \/ \E e \in Encodings, inc \in BOOLEAN : FromEncoding(e, inc)

\* ---------------------------------------------- AsyncRuntime singletons
\* src/src/async_impl.rs with the feature "tokio".  A thread's call is cut
\* into steps at the points where it locks a mutex: a step is enabled when
\* the mutex is free, so a thread in front of a held mutex waits.

Threads == 1..NumThreads

RuntimeKinds == {"TokioSingle", "TokioShared", "TokioOwned"}

Ops == {"make_default", "spawn", "block_on", "connect_tcp", "timeout"}

\* What a task running under block_on calls: the operations that go through
\* current().
TaskOps == {"spawn", "connect_tcp", "timeout"}

\* std::sync::Mutex: the value, the owning thread (0 when free) and the
\* poison flag, set when a thread panics while it holds the guard.
Mutex(v) == [val |-> v, owner |-> 0, poisoned |-> FALSE]

\* A thread that makes no call: op is the call in progress, arg the runtime
\* kind passed to make_default, block whether the thread runs a task under
\* block_on (and holds the RUNTIME guard), on the runtime that task runs on.
IdleThread == [pc |-> "idle", op |-> "none", arg |-> "none", block |-> FALSE, on |-> "None"]

\* use_shared with a runtime of its own stored next to the handle.
StoredRuntimeAlways(kind) ==
    CASE kind = "TokioSingle" -> "default"
      [] kind = "TokioShared" -> "default"
      [] kind = "TokioOwned" -> "owned"

\* The runtime use_default, use_shared and use_owned pass to set_singletons.
StoredRuntime(kind) ==
    CASE kind = "TokioSingle" -> "default"
      [] kind = "TokioShared" -> "None"
      [] kind = "TokioOwned" -> "owned"

\* The handle use_default, use_shared and use_owned pass to set_singletons.
StoredHandle(kind) ==
    CASE kind = "TokioSingle" -> "default"
      [] kind = "TokioShared" -> "ambient"
      [] kind = "TokioOwned" -> "owned"

\* The state after the Lazy initializer of CURRENT_RUNTIME has run
\* use_default: the default runtime and its handle are stored.
RuntimeInit ==
    /\ CURRENT_RUNTIME = Mutex("TokioSingle")
    /\ RUNTIME = Mutex(StoredRuntime("TokioSingle"))
    /\ HANDLE = Mutex(StoredHandle("TokioSingle"))
    /\ threads = [t \in Threads |-> IdleThread]

\* The body reader takes no part in the runtime specification.
InitRuntime ==
    /\ RuntimeInit
    /\ codec = "Deferred"
    /\ rd = NewReader("RequestEmpty", FALSE, FALSE)
    /\ io = NewSource(0)
    /\ hist = [ taken |-> <<>>, direct |-> FALSE, first |-> TRUE, prebuffer |-> FALSE ]
    /\ last = [ op |-> "new", arg |-> 0, r |-> "ok", amt |-> 0, data |-> <<>>,
                first |-> FALSE, faults |-> <<>> ]
    /\ panicked = FALSE

\* Unwinding of thread t: a guard dropped during a panic poisons its mutex.
Unwind(m, t) ==
    IF m.owner = t THEN [m EXCEPT !.owner = 0, !.poisoned = TRUE] ELSE m

\* Thread t panics: the guards it holds are dropped, the thread is gone.
Panic(t) ==
    /\ CURRENT_RUNTIME' = Unwind(CURRENT_RUNTIME, t)
    /\ RUNTIME' = Unwind(RUNTIME, t)
    /\ HANDLE' = Unwind(HANDLE, t)
    /\ threads' = [threads EXCEPT ![t].pc = "panicked", ![t].block = FALSE]

\* The call in progress returns: a task under block_on goes on, any other
\* thread is free for its next call.
Returned(t) == [threads EXCEPT ![t].pc = "idle", ![t].op = "none", ![t].arg = "none"]

\* A thread, or the task it runs under block_on, begins a call.
Call(t, o, kind) ==
    /\ threads[t].pc = "idle"
    /\ UNCHANGED vars
    /\ threads[t].block => o \in TaskOps
    /\ threads' = [threads EXCEPT ![t].op = o,
                                  ![t].arg = IF o = "make_default" THEN kind ELSE "none",
                                  ![t].pc = IF o = "make_default" THEN "lock_current"
                                            ELSE "current"]
    /\ UNCHANGED <<CURRENT_RUNTIME, RUNTIME, HANDLE>>

\* fn current() at the head of spawn, block_on, connect_tcp and timeout:
\* lock CURRENT_RUNTIME, copy the value, unlock.  connect_tcp and timeout
\* touch no other mutex.
Current(t) ==
    /\ threads[t].pc = "current"
    /\ UNCHANGED vars
    /\ CURRENT_RUNTIME.owner = 0
    /\ IF CURRENT_RUNTIME.poisoned THEN Panic(t)
       ELSE /\ threads' = CASE threads[t].op = "spawn" ->
                                   [threads EXCEPT ![t].pc = "spawn_handle"]
                            [] threads[t].op = "block_on" ->
                                   [threads EXCEPT ![t].pc = "block_runtime"]
                            [] OTHER -> Returned(t)
            /\ UNCHANGED <<CURRENT_RUNTIME, RUNTIME, HANDLE>>

\* make_default, line 190: the guard of CURRENT_RUNTIME is taken and kept
\* until the function returns.
MakeDefaultLock(t) ==
    /\ threads[t].pc = "lock_current"
    /\ UNCHANGED vars
    /\ CURRENT_RUNTIME.owner = 0
    /\ IF CURRENT_RUNTIME.poisoned THEN Panic(t)
       ELSE /\ CURRENT_RUNTIME' = [CURRENT_RUNTIME EXCEPT !.owner = t]
            /\ threads' = [threads EXCEPT ![t].pc = "unset_runtime"]
            /\ UNCHANGED <<RUNTIME, HANDLE>>

\* unset_singletons, line 361: RUNTIME.lock().unwrap().take().  (From inside
\* a tokio context the closure runs on a thread of its own that the caller
\* joins: the caller waits for the same mutex through that thread.)
UnsetRuntime(t) ==
    /\ threads[t].pc = "unset_runtime"
    /\ UNCHANGED vars
    /\ RUNTIME.owner = 0
    /\ IF RUNTIME.poisoned THEN Panic(t)
       ELSE /\ RUNTIME' = [RUNTIME EXCEPT !.val = "None"]
            /\ threads' = [threads EXCEPT ![t].pc = "unset_handle"]
            /\ UNCHANGED <<CURRENT_RUNTIME, HANDLE>>

\* unset_singletons, line 363: HANDLE.lock().unwrap().take(); then, in
\* use_shared, Handle::current(), which panics outside a tokio context.
UnsetHandle(t) ==
    /\ threads[t].pc = "unset_handle"
    /\ UNCHANGED vars
    /\ HANDLE.owner = 0
    /\ \E in_context \in BOOLEAN :
         IF HANDLE.poisoned THEN Panic(t)
         ELSE IF threads[t].arg = "TokioShared" /\ ~in_context
         THEN /\ CURRENT_RUNTIME' = Unwind(CURRENT_RUNTIME, t)
              /\ RUNTIME' = RUNTIME
              /\ HANDLE' = [HANDLE EXCEPT !.val = "None"]
              /\ threads' = [threads EXCEPT ![t].pc = "panicked"]
         ELSE /\ HANDLE' = [HANDLE EXCEPT !.val = "None"]
              /\ threads' = [threads EXCEPT ![t].pc = "set_handle"]
              /\ UNCHANGED <<CURRENT_RUNTIME, RUNTIME>>

\* set_singletons, lines 353-354: the guard of HANDLE is taken and kept.
SetHandle(t) ==
    /\ threads[t].pc = "set_handle"
    /\ UNCHANGED vars
    /\ HANDLE.owner = 0
    /\ IF HANDLE.poisoned THEN Panic(t)
       ELSE /\ HANDLE' = [HANDLE EXCEPT !.owner = t, !.val = StoredHandle(threads[t].arg)]
            /\ threads' = [threads EXCEPT ![t].pc = "set_runtime"]
            /\ UNCHANGED <<CURRENT_RUNTIME, RUNTIME>>

\* set_singletons, lines 355-357, with HANDLE still held: RUNTIME is locked
\* and set, both guards are dropped; back in make_default the new kind is
\* stored and the guard of CURRENT_RUNTIME is dropped.
SetRuntime(t) ==
    /\ threads[t].pc = "set_runtime"
    /\ UNCHANGED vars
    /\ RUNTIME.owner = 0
    /\ IF RUNTIME.poisoned THEN Panic(t)
       ELSE /\ RUNTIME' = [RUNTIME EXCEPT !.val = StoredRuntime(threads[t].arg)]
            /\ HANDLE' = [HANDLE EXCEPT !.owner = 0]
            /\ CURRENT_RUNTIME' = [CURRENT_RUNTIME EXCEPT !.val = threads[t].arg,
                                                          !.owner = 0]
            /\ threads' = Returned(t)

\* async_tokio::spawn: lock HANDLE, unwrap the handle, spawn, unlock.
SpawnOnHandle(t) ==
    /\ threads[t].pc = "spawn_handle"
    /\ UNCHANGED vars
    /\ HANDLE.owner = 0
    /\ IF HANDLE.poisoned THEN Panic(t)
       ELSE IF HANDLE.val = "None"
       THEN /\ HANDLE' = [HANDLE EXCEPT !.poisoned = TRUE]
            /\ CURRENT_RUNTIME' = CURRENT_RUNTIME
            /\ RUNTIME' = Unwind(RUNTIME, t)
            /\ threads' = [threads EXCEPT ![t].pc = "panicked", ![t].block = FALSE]
       ELSE /\ threads' = Returned(t)
            /\ UNCHANGED <<CURRENT_RUNTIME, RUNTIME, HANDLE>>

\* async_tokio::block_on: lock RUNTIME; without a stored runtime panic, with
\* one run the task on it, the guard held for as long as the task runs.
BlockOnRuntime(t) ==
    /\ threads[t].pc = "block_runtime"
    /\ UNCHANGED vars
    /\ RUNTIME.owner = 0
    /\ IF RUNTIME.poisoned THEN Panic(t)
       ELSE IF RUNTIME.val = "None"
       THEN /\ RUNTIME' = [RUNTIME EXCEPT !.poisoned = TRUE]
            /\ threads' = [threads EXCEPT ![t].pc = "panicked"]
            /\ UNCHANGED <<CURRENT_RUNTIME, HANDLE>>
       ELSE /\ RUNTIME' = [RUNTIME EXCEPT !.owner = t]
            /\ threads' = [Returned(t) EXCEPT ![t].block = TRUE, ![t].on = RUNTIME.val]
            /\ UNCHANGED <<CURRENT_RUNTIME, HANDLE>>

\* The task under block_on completes: block_on returns and drops the guard.
TaskDone(t) ==
    /\ threads[t].pc = "idle"
    /\ UNCHANGED vars
    /\ threads[t].block
    /\ RUNTIME' = [RUNTIME EXCEPT !.owner = 0]
    /\ threads' = [threads EXCEPT ![t].block = FALSE, ![t].on = "None"]
    /\ UNCHANGED <<CURRENT_RUNTIME, HANDLE>>

NextRuntime ==
    \E t \in Threads :
        \/ \E o \in Ops, kind \in RuntimeKinds : Call(t, o, kind)
        \/ Current(t)
        \/ MakeDefaultLock(t)
        \/ UnsetRuntime(t)
        \/ UnsetHandle(t)
        \/ SetHandle(t)
        \/ SetRuntime(t)
        \/ SpawnOnHandle(t)
        \/ BlockOnRuntime(t)
        \/ TaskDone(t)

\* The body reader is constructed, the runtime singletons are initialized.
InitReader == Init /\ RuntimeInit

\* The body reader, with the runtime singletons left as initialized.
Spec == InitReader /\ [][Next]_allvars

\* The runtime singletons, with the body reader left as constructed.
SpecRuntime == InitRuntime /\ [][NextRuntime]_allvars

\* ---------------------------------------------------------------- claims

Body == Bytes(1, io.body)

\* Every byte pulled from the source so far has passed the cursor, waits in
\* the buffer or waits in the leftover chunk: no failed release_capacity has
\* dropped a chunk.
NothingDropped ==
    Len(hist.taken) + unconsumed_len(Cur) + Len(rd.h2_leftover_bytes) = io.pos

NoEmptyChunk == Zeros(io.received) = 0

\* The source has produced its last byte.
SourceDone == io.pos = io.body

\* The bytes of the body in the order they are due: those that passed the
\* cursor, those still unconsumed in the buffer, the leftover chunk, and
\* those the source has yet to produce.
Account(r, i, h) ==
    h.taken \o Drop(r.buffer, r.consumed) \o r.h2_leftover_bytes
            \o Bytes(i.pos + 1, i.body)

\* C1: when the caller only reads, the bytes returned up to the first read
\* that returns 0 are the whole body the source has to deliver, in order,
\* for every source, slab sequence and read-buffer size.
C1_ReadsReturnTheWholeBody ==
    (last.op = "read" /\ last.r = "ok" /\ last.amt = 0
        /\ ~hist.direct /\ NothingDropped)
    => hist.taken = Body

\* C2: with prebuffer enabled, attempt_prebuffer as the first call returns a
\* definite length for every body shorter than the prebuffer target and none
\* for every body longer than it, whatever the slabs and suspensions (stated
\* for runs without a zero-length chunk; the body of exactly the target
\* length is left open).
C2_PrebufferDecidedByBodyLength ==
    (last.op = "attempt_prebuffer" /\ last.r = "ok" /\ last.first
        /\ codec # "DeferredNone" /\ hist.prebuffer /\ NoEmptyChunk)
    => /\ io.body < MAX_PREBUFFER => last.amt # -1
       /\ io.body > MAX_PREBUFFER => last.amt = -1

\* C3: whenever attempt_prebuffer returns a length n, the source has
\* finished, n is the number of bytes it produced, and the buffer holds all
\* of them.
C3_PrebufferLengthIsTheBody ==
    (last.op = "attempt_prebuffer" /\ last.r = "ok" /\ last.amt # -1
        /\ NothingDropped /\ NoEmptyChunk)
    => /\ SourceDone
       /\ last.amt = io.body
       /\ rd.buffer = Body

\* C4: the sizes passed to release_capacity are, one for one and in order,
\* the sizes of the chunks received from poll_data: each chunk's credit is
\* released once, in full, however many reads drain it.
C4_CreditOncePerChunk ==
    /\ io.released = io.received
    /\ Sum(io.released) = io.pos \/ rd.imp # "Http2"

\* C4 witness: a chunk of three bytes has been drained by three reads.
C4_Witness ==
    /\ io.received = <<3>>
    /\ hist.taken = <<1, 2, 3>>
    /\ ~hist.direct
    /\ last.op = "read" /\ last.arg = 1

\* C5: no byte of an HTTP/2 chunk is in the buffer, in a returned view or in
\* returned data unless the chunk's credit has been released.
C5_CreditBeforeBytes ==
    rd.imp = "Http2" =>
        /\ \A k \in 1..Len(rd.buffer) : rd.buffer[k] <= Sum(io.released)
        /\ \A k \in 1..Len(last.data) :
               last.op \in {"read", "fill_buf"} => last.data[k] <= Sum(io.released)

\* C5 witness: a view shows the first bytes of a chunk whose rest is still
\* in the leftover chunk reader.
C5_Witness ==
    /\ rd.imp = "Http2"
    /\ last.op = "fill_buf" /\ last.r = "ok" /\ last.data # <<>>
    /\ rd.h2_leftover_bytes # <<>>

\* C6: a call that ends suspended leaves the cursor within the buffer, has
\* passed to release_capacity exactly the chunks it received, and has neither
\* lost nor repeated a byte of the body.
C6_SuspendedCallIsConsistent ==
    [][ last'.r = "pending" =>
          /\ rd'.consumed <= Len(rd'.buffer)
          /\ io'.released = io'.received
          /\ Account(rd', io', hist') = Account(rd, io, hist) ]_vars

\* C6 witness: a call was suspended after it had received a chunk and put
\* bytes in the buffer.
C6_Witness ==
    /\ last.r = "pending"
    /\ rd.buffer # <<>>
    /\ io.received # <<>>

\* C7: read, poll_fill_buf and consume on a Deferred codec panic and hand
\* over nothing.
C7_DeferredIsMisuse ==
    (codec \in Unfinalized /\ last.op \in {"read", "fill_buf", "consume"})
    => /\ last.r = "panic" /\ panicked
       /\ last.amt = 0 /\ last.data = <<>>
       /\ hist.taken = <<>>

\* C7 witness: a read on a Deferred codec has panicked.
C7_Witness ==
    codec = "Deferred" /\ last.op = "read" /\ panicked

\* C8: from_encoding yields Pass for no or an unrecognized encoding, the
\* decoder for a recognized encoding of an incoming body and the encoder for
\* one of an outgoing body; it never fails and never yields Deferred.
C8_FromEncodingTable ==
    last.op = "from_encoding" =>
        /\ last.r = "ok" /\ ~panicked
        /\ codec = IF last.data # <<"gzip">> THEN "Pass"
                   ELSE IF last.arg = 1 THEN "GzipDecoder" ELSE "GzipEncoder"

\* C8 witness: an unrecognized encoding has given Pass.
C8_Witness ==
    last.op = "from_encoding" /\ last.data = <<"br">> /\ codec = "Pass"

\* C9: a read with a non-empty buffer returns min(len(buf), unconsumed bytes)
\* bytes and moves the cursor by as much; it returns 0 only when the source
\* has produced its last byte and nothing is left in the buffer.
C9_ReadAmount ==
    (last.op = "read" /\ last.r = "ok") =>
        /\ last.amt = Len(last.data)
        /\ last.amt = Min(last.arg, last.amt + unconsumed_len(Cur))
        /\ last.amt = 0 => SourceDone /\ unconsumed_len(Cur) = 0

\* C10: a completed poll_fill_buf returns buffer[consumed..], and an empty
\* view only when the source has produced its last byte.
C10_FillBufView ==
    (last.op = "fill_buf" /\ last.r = "ok") =>
        /\ last.data = unconsumed(Cur)
        /\ last.data = <<>> => SourceDone

\* C11: consume(n) with n within the unconsumed length moves the cursor by
\* exactly n and leaves the buffer, the finished flag, the prebuffer target,
\* the leftover chunk and the source as they were; consume(n) with n beyond
\* the unconsumed length is a panic.
C11_ConsumeContract ==
    [][ (last'.op = "consume" /\ codec \notin Unfinalized) =>
          IF last'.arg <= unconsumed_len(Cur)
          THEN /\ last'.r = "ok" /\ ~panicked'
               /\ rd' = [rd EXCEPT !.consumed = @ + last'.arg]
               /\ io' = io
          ELSE last'.r = "panic" /\ panicked' ]_vars

\* C11 witness: consume has moved the cursor part of the way through the
\* unconsumed bytes.
C11_Witness ==
    /\ last.op = "consume" /\ last.r = "ok" /\ last.arg > 0
    /\ codec \notin Unfinalized
    /\ 0 < unconsumed_len(Cur)

\* C12: a call in which the synchronous source reports WouldBlock ends in a
\* panic, never in an error value or a suspension; a call in which it fails
\* in any other way returns an I/O error.
C12_SyncWouldBlockPanics ==
    rd.imp = "RequestRead" =>
        /\ last.faults = <<"WouldBlock">> => last.r = "panic" /\ panicked
        /\ last.faults = <<"io">> => last.r = "err" /\ ~panicked

\* C12 witness: the synchronous source has reported WouldBlock after the
\* refill had already pulled bytes from it.
C12_Witness ==
    /\ rd.imp = "RequestRead"
    /\ last.faults = <<"WouldBlock">>
    /\ io.pos > 0

\* C13: a read, poll_fill_buf or attempt_prebuffer during which the source
\* failed (reader error, poll_data error, release_capacity error) returns an
\* I/O error from that same call, and the source is not asked again in the
\* call: its record holds the one failure.
C13_SourceFailureIsReturned ==
    (last.op \in {"read", "fill_buf", "attempt_prebuffer"}
        /\ last.faults # <<>> /\ last.faults # <<"WouldBlock">>)
    => /\ last.r = "err"
       /\ Len(last.faults) = 1

\* C13 witness: poll_fill_buf has returned the error of a failed
\* release_capacity for a chunk that came after bytes were buffered.
C13_Witness ==
    /\ last.op = "fill_buf" /\ last.r = "err"
    /\ last.faults = <<"release_capacity">>
    /\ Len(io.received) > 1

\* C14: with the Empty source, with or without the prebuffer flag, every
\* call that reaches the reader completes at once and leaves the reader
\* finished: attempt_prebuffer returns the length 0, poll_fill_buf an empty
\* view and read 0; none is suspended or fails.
C14_EmptySource ==
    rd.imp = "RequestEmpty" =>
        /\ (last.op = "attempt_prebuffer" /\ codec # "DeferredNone") =>
               last.r = "ok" /\ last.amt = 0 /\ rd.is_finished
        /\ (last.op = "fill_buf" /\ codec \notin Unfinalized) =>
               last.r = "ok" /\ last.data = <<>> /\ rd.is_finished
        /\ (last.op = "read" /\ codec \notin Unfinalized) =>
               last.r = "ok" /\ last.amt = 0 /\ rd.is_finished

\* C14 witness: attempt_prebuffer, as the first call on an Empty source
\* built with the prebuffer flag, has returned the length 0.
C14_Witness ==
    /\ rd.imp = "RequestEmpty" /\ hist.prebuffer /\ codec # "DeferredNone"
    /\ last.op = "attempt_prebuffer" /\ last.first
    /\ last.r = "ok" /\ last.amt = 0

\* The mutex a thread is about to lock.
Wants(t) ==
    CASE threads[t].pc \in {"current", "lock_current"} -> CURRENT_RUNTIME
      [] threads[t].pc \in {"unset_runtime", "set_runtime", "block_runtime"} -> RUNTIME
      [] threads[t].pc \in {"unset_handle", "set_handle", "spawn_handle"} -> HANDLE
      [] OTHER -> Mutex("none")

\* The thread that holds the mutex a thread is about to lock (0: nobody).
WaitsFor(t) == Wants(t).owner

\* C15: no set of threads waits forever on the three mutexes: in no
\* reachable state is there a set of threads each of which waits for a
\* mutex held by a thread of the set.
C15_NoMutexDeadlock ==
    ~ \E B \in SUBSET Threads : B # {} /\ \A t \in B : WaitsFor(t) \in B

\* C16: when block_on reaches the RUNTIME mutex while no make_default is in
\* progress and none has panicked, it panics if the runtime selected last is
\* TokioShared, and otherwise it runs the task on the runtime that
\* make_default stored: the default one after TokioSingle, the one handed
\* over after TokioOwned.
C16_BlockOnBySelectedRuntime ==
    [][ \A t \in Threads :
          (threads[t].pc = "block_runtime" /\ threads'[t].pc # "block_runtime"
              /\ CURRENT_RUNTIME.owner = 0 /\ ~CURRENT_RUNTIME.poisoned)
          => IF CURRENT_RUNTIME.val = "TokioShared"
             THEN threads'[t].pc = "panicked" /\ ~threads'[t].block
             ELSE /\ threads'[t].pc = "idle" /\ threads'[t].block
                  /\ RUNTIME'.owner = t
                  /\ threads'[t].on = IF CURRENT_RUNTIME.val = "TokioSingle"
                                      THEN "default" ELSE "owned" ]_allvars

\* C16 witness: TokioShared has been made the default and a thread has
\* panicked in block_on since.
C16_Witness ==
    /\ CURRENT_RUNTIME = Mutex("TokioShared")
    /\ RUNTIME.poisoned
    /\ \E t \in Threads : threads[t].pc = "panicked" /\ threads[t].op = "block_on"

\* C17: with a bandwidth monitor attached, the total reported to it is the
\* number of bytes delivered from the source into the buffer, whether they
\* came from a fresh pull or from an HTTP/2 leftover chunk.
C17_BandwidthCountsDeliveredBytes ==
    (rd.bw /\ ~panicked) => io.bw_total = Len(hist.taken) + unconsumed_len(Cur)

\* C18: as long as consume is called within its contract the cursor is at
\* most the buffer length; and a read that finds the cursor at the end of
\* the buffer returns 0 and changes nothing if the reader is finished, and
\* otherwise refills from a cleared buffer with the cursor back at 0: after
\* the call the buffer holds no byte it held before and the cursor stands at
\* the number of bytes the read returned.
C18_CursorWithinBuffer ==
    [][ /\ ~(last'.op = "consume" /\ panicked') => rd'.consumed <= Len(rd'.buffer)
        /\ (last'.op = "read" /\ codec = "Pass" /\ unconsumed_len(Cur) = 0) =>
              IF rd.is_finished
              THEN last'.r = "ok" /\ last'.amt = 0 /\ rd' = rd /\ io' = io
              ELSE /\ rd'.consumed = IF last'.r = "ok" THEN last'.amt ELSE 0
                   /\ \A i \in 1..Len(rd'.buffer), j \in 1..Len(rd.buffer) :
                          rd'.buffer[i] > rd.buffer[j] ]_allvars

\* C18 witness: a read has refilled a buffer that had been read to its end
\* before, and has returned bytes of the new content.
C18_Witness ==
    /\ last.op = "read" /\ last.r = "ok" /\ last.amt > 0
    /\ rd.buffer # <<>> /\ rd.buffer[1] > 1
    /\ rd.consumed = last.amt
    /\ hist.taken = Bytes(1, rd.buffer[1] + last.amt - 1)

\* C19: when the first read or poll_fill_buf to complete, after no call or
\* after nothing but suspended polls of attempt_prebuffer, has returned
\* bytes to the caller, the prebuffer target is 0: the first refill cycle
\* is over and no later refill accumulates up to the target.
C19_PrebufferOnlyOnce ==
    (last.first /\ last.op \in {"read", "fill_buf"} /\ last.r = "ok" /\ last.amt > 0)
    => rd.prebuffer_to = 0

\* C20: the finished flag is set only when the source has no byte left to
\* deliver, and it is set whenever the source has signalled the end of the
\* stream.
C20_FinishedOnlyAtEndOfStream ==
    /\ rd.is_finished => SourceDone
    /\ io.eof => rd.is_finished

\* C21: a refill invoked while unconsumed bytes remain (through
\* poll_fill_buf or attempt_prebuffer) completes without pulling from the
\* source or releasing credit, and leaves buffer, cursor, finished flag,
\* prebuffer target and leftover chunk as they were.
C21_RefillWithUnconsumedIsNoOp ==
    [][ (/\ \/ last'.op = "fill_buf" /\ codec \notin Unfinalized
            \/ last'.op = "attempt_prebuffer" /\ codec # "DeferredNone"
         /\ unconsumed_len(Cur) > 0)
        => /\ last'.r = "ok" /\ last'.faults = <<>>
           /\ rd' = rd
           /\ io' = io ]_allvars

\* C21 witness: poll_fill_buf was called with the cursor inside the buffer
\* and has returned the rest of it.
C21_Witness ==
    /\ last.op = "fill_buf" /\ last.r = "ok"
    /\ rd.consumed > 0 /\ unconsumed_len(Cur) > 0
    /\ last.data = unconsumed(Cur)

\* C22: while the leftover chunk reader holds bytes, no new chunk has been
\* asked for: the leftover is the undelivered tail of the chunk received
\* last, it ends where the source stands, and the byte delivered last into
\* the buffer is the one just before it.
C22_LeftoverDrainedFirst ==
    rd.h2_leftover_bytes # <<>> =>
        LET left == Len(rd.h2_leftover_bytes) IN
        /\ rd.imp = "Http2" /\ io.received # <<>>
        /\ left < io.received[Len(io.received)]
        /\ rd.h2_leftover_bytes = Bytes(io.pos - left + 1, io.pos)
        /\ rd.buffer # <<>> => rd.buffer[Len(rd.buffer)] = io.pos - left

\* C22 witness: a read has been served from the leftover of a chunk of
\* three bytes, and the leftover still holds the chunk's last byte.
C22_Witness ==
    /\ io.received = <<3>>
    /\ rd.h2_leftover_bytes = <<3>>
    /\ rd.buffer = <<2>>
    /\ last.op = "read" /\ last.r = "ok" /\ last.data = <<2>>

\* C23: attempt_prebuffer on a codec that holds a reader (Deferred, Pass,
\* decoder, encoder) is the reader's attempt_prebuffer: it leaves reader and
\* source as the reader's call leaves them, returns the reader's answer,
\* hands no byte to the caller and leaves the codec's state alone; on
\* Deferred(None) it returns None without error and touches nothing.
C23_PrebufferBypassesCodec ==
    [][ last'.op = "attempt_prebuffer" =>
          /\ codec' = codec /\ hist'.taken = hist.taken
          /\ IF codec = "DeferredNone"
             THEN /\ last'.r = "ok" /\ last'.amt = -1 /\ ~panicked'
                  /\ rd' = rd /\ io' = io
             ELSE \E d \in ReaderAttemptPrebuffer(Cur) :
                      /\ rd' = d.s.rd /\ io' = d.s.io
                      /\ last'.r = d.r /\ last'.amt = d.amt
                      /\ panicked' = (d.r \in {"panic", "spin"}) ]_allvars

\* C23 witness: attempt_prebuffer on a codec in the decoder state has
\* buffered a whole body and returned its length.
C23_Witness ==
    /\ codec = "GzipDecoder"
    /\ last.op = "attempt_prebuffer" /\ last.r = "ok"
    /\ last.amt = io.body /\ io.body > 0
    /\ rd.buffer = Body /\ hist.taken = <<>>

\* C24: a call is suspended only on an asynchronous reader, an HTTP/1
\* stream or an HTTP/2 stream, never on a synchronous reader or an Empty
\* source, and never while a leftover chunk waits to be delivered.
C24_SuspensionOnlyOnAsyncSources ==
    last.r = "pending" =>
        /\ rd.imp \in {"RequestAsyncRead", "Http1", "Http2"}
        /\ rd.h2_leftover_bytes = <<>>
        /\ last.op \in {"read", "fill_buf", "attempt_prebuffer"}

\* C24 witness: poll_fill_buf has completed with a view served from the
\* leftover of an HTTP/2 chunk.
C24_Witness ==
    /\ rd.imp = "Http2" /\ io.received = <<2>>
    /\ hist.taken = <<1>>
    /\ last.op = "fill_buf" /\ last.r = "ok" /\ last.data = <<2>>

\* C25: once the finished flag is set it stays set and the source is not
\* touched again: no call pulls from it, receives a chunk, releases credit
\* or reports to the bandwidth monitor; and with nothing unconsumed left
\* every read returns 0 and every poll_fill_buf an empty view.
C25_FinishedIsFinal ==
    [][ rd.is_finished =>
          /\ rd'.is_finished
          /\ io' = io
          /\ (last'.op = "read" /\ codec = "Pass" /\ unconsumed_len(Cur) = 0)
                => last'.r = "ok" /\ last'.amt = 0
          /\ (last'.op = "fill_buf" /\ codec \notin Unfinalized /\ unconsumed_len(Cur) = 0)
                => last'.r = "ok" /\ last'.data = <<>> ]_allvars

\* C25 witness: with the reader finished and the body read out, a read has
\* returned 0 and the poll_fill_buf after it an empty view.
C25_Witness ==
    /\ rd.is_finished /\ io.eof /\ io.body > 0
    /\ hist.taken = Body /\ ~hist.direct
    /\ last.op = "fill_buf" /\ last.r = "ok" /\ last.data = <<>>

\* C27: a spawn or block_on that runs beside a make_default never finds the
\* singletons in the window between unset_singletons and set_singletons:
\* spawn, locking an unpoisoned HANDLE, never panics on a missing handle,
\* and block_on, locking an unpoisoned RUNTIME, panics on a missing runtime
\* only when the selected runtime is TokioShared.
C27_UnsetWindowNeverObserved ==
    [][ \A t \in Threads :
          /\ (threads[t].pc = "spawn_handle" /\ ~HANDLE.poisoned)
                => threads'[t].pc # "panicked"
          /\ (threads[t].pc = "block_runtime" /\ ~RUNTIME.poisoned
                /\ threads'[t].pc = "panicked")
                => CURRENT_RUNTIME.val = "TokioShared" ]_allvars
====
